---- MODULE Spec2Model ----
(***************************************************************************)
(* A model of mne/report.py: the Report object (identifier allocator,      *)
(* html list, fnames list), its section builders, parse_folder's           *)
(* per-artifact loop, the table of contents and save; the slice iterators, *)
(* the slider groups and the slider of the volume sections.                *)
(***************************************************************************)
EXTENDS Integers, Sequences, FiniteSets, TLC

\* Bounds of the model.
MaxOps == 3      \* items handled in one run: files walked, add_section and save calls
MaxConds == 2    \* conditions the evoked reader finds in one -ave.fif file
MaxFigs == 1     \* figures given to one add_section call
MaxExtent == 3   \* the largest extent of an axis of a volume in a slice run

VARIABLES
    initial_id,   \* self.initial_id
    html,         \* self.html, a list of text pieces, each modelled by its structure
    fnames,       \* self.fnames
    title,        \* self.title
    data_path,    \* self.data_path (NoPath: the attribute is not set yet)
    report_file,  \* what save wrote to <data_path>/<fname>
    pc,           \* "idle", or "walk" inside parse_folder's loop over fnames
    walked,       \* the folder's entries handled so far by the running parse_folder call
    evoked_db,    \* the number of conditions stored in each -ave.fif file read so far
    nops,         \* items handled so far (bounds the run)
    hist,         \* what went wrong so far (history, not program state)
    issued,       \* the values _get_id returned, in call order (history)
    warned,       \* the messages given to warnings.warn so far, in call order
    cname,        \* classification run: the file name given
    cdir,         \* classification run: op.isdir(fname)
    ckinds,       \* classification run: the branch the cascade took, per run
    vshape,       \* slice run: array.shape of the volume
    vlimits,      \* slice run: the limits argument, <<>> for None, <<S>> for the indices S
    vyield,       \* slice run: the indices the last iterator call yielded
    vgroup        \* slice run: the slider group the last call built

mainvars == <<initial_id, html, fnames, title, data_path, report_file, pc, walked,
              evoked_db, nops, hist, issued, warned>>
cvars == <<cname, cdir, ckinds, vshape, vlimits, vyield, vgroup>>
vars == <<initial_id, html, fnames, title, data_path, report_file, pc, walked,
          evoked_db, nops, hist, issued, warned, cname, cdir, ckinds,
          vshape, vlimits, vyield, vgroup>>

-----------------------------------------------------------------------------
\* Strings

\* str.endswith(suf)
EndsWith(s, suf) ==
    /\ Len(s) >= Len(suf)
    /\ SubSeq(s, Len(s) - Len(suf) + 1, Len(s)) = suf

\* str.endswith((suf1, suf2, ...))
EndsWithAny(s, sufs) == \E suf \in sufs : EndsWith(s, suf)

\* The position of the last "/" of s at or before i (0: none).
RECURSIVE LastSlash(_, _)
LastSlash(s, i) ==
    IF i = 0 THEN 0
    ELSE IF SubSeq(s, i, i) = "/" THEN i
    ELSE LastSlash(s, i - 1)

\* os.path.basename
Basename(s) == SubSeq(s, LastSlash(s, Len(s)) + 1, Len(s))

\* s[-n:]
Tail_n(s, n) == IF Len(s) <= n THEN s ELSE SubSeq(s, Len(s) - n + 1, Len(s))

\* fnmatch.filter(files, '*.fif') keeps the names that end in ".fif"
FnmatchFif(f) == EndsWith(f, ".fif")

-----------------------------------------------------------------------------
\* The world outside the report: directory entries and file contents.

NoPath == ""
NoTitle == "<None>"
DataPath == "/home/user/study/sample"
MriName == "subjects/s1/mri/T1.mgz"
AveNames == {"meg/d-ave.fif"}
DirEntries ==
    {"a_raw.fif", "b_sss.fif", "c-fwd.fif", "g-cov.fif", "h-trans.fif", "i-inv.fif",
     "weird_data.bin"} \cup AveNames
Titles == {NoTitle}
SurfNames == {"inner_skull", "outer_skull", "outer_skin"}
SurfOrder == <<"inner_skull", "outer_skull", "outer_skin">>   \* the order _render_bem looks for them
FullShape == <<3, 3, 3>>     \* data.shape of an ordinary T1.mgz
FlatShape == <<3, 0, 3>>     \* data.shape of a volume with a zero-extent axis
ThinShape == <<3, 3, 1>>     \* data.shape of a volume whose axial slices have one column

\* ev.comment of the i-th condition of a file
Comment(i) == <<"A", "B", "C", "D">>[i]

\* What the collaborators do in one builder call: whether the reader (or the
\* image load/save) succeeds, which plot call raises (0: none), whether
\* plot_trans returns a 3-D scene, how many conditions the evoked reader finds,
\* whether the subject's bem directory exists and which surfaces glob finds.
Env(r, p, s, n, b, sf) ==
    [read_ok |-> r, plot_fail_at |-> p, scene |-> s, nconds |-> n, bem_dir |-> b,
     surfs |-> sf, shape |-> FullShape, isfile |-> TRUE]

\* The same, with a volume of shape sh in T1.mgz.
WithShape(env, sh) == [env EXCEPT !.shape = sh]

\* The same, with an mri/T1.mgz that glob lists but that is no regular file (a
\* directory, a dangling link): op.isfile is false and it cannot be loaded.
NotAFile(env) == [env EXCEPT !.isfile = FALSE, !.read_ok = FALSE]

-----------------------------------------------------------------------------
\* The Report object as a value: the fields the builders touch, and exc: an
\* exception is propagating.

Obj == [initial_id |-> initial_id, html |-> html, fnames |-> fnames,
        issued |-> issued, warned |-> warned, exc |-> FALSE]

Raise(o) == [o EXCEPT !.exc = TRUE]

\* warnings.warn(msg)
Warn(o, msg) == [o EXCEPT !.warned = Append(@, msg)]

\* _get_id that returns initial_id + 1 and loses the increment.
GetId_NoIncrement(o) ==
    [o EXCEPT !.issued = Append(@, o.initial_id + 1)]

\* _get_id: the object after the call; the value returned is its initial_id.
GetId(o) ==
    [o EXCEPT !.initial_id = @ + 1, !.issued = Append(@, o.initial_id + 1)]

\* One piece of self.html.
Piece(kind, t, rows, frags) == [kind |-> kind, title |-> t, rows |-> rows, frags |-> frags]
Header(t) == Piece("header", t, <<>>, <<>>)
Footer == Piece("footer", "", <<>>, <<>>)
Body(frags) == Piece("body", "", <<>>, frags)
TocPiece(rows) == Piece("toc", "", rows, <<>>)

\* One <li class=klass id=id> element of the body: name is the file its caption
\* names, cond the condition's comment, groups the slider groups inside it.
Frag(id, klass, name, cond) ==
    [id |-> id, klass |-> klass, name |-> name, cond |-> cond, groups |-> <<>>]

\* The <li class="slices-images" id=id> element of a volume section.
SliceFrag(id, name, groups) ==
    [id |-> id, klass |-> "slices-images", name |-> name, cond |-> "", groups |-> groups]

AppendHtml(o, piece) == [o EXCEPT !.html = Append(@, piece)]
AppendName(o, name) == [o EXCEPT !.fnames = Append(@, name)]

-----------------------------------------------------------------------------
\* Volumes: the slice iterators, the slider and the slider groups.

\* range(0, n, 2)
RECURSIVE RangeFrom(_, _)
RangeFrom(i, n) == IF i >= n THEN <<>> ELSE <<i>> \o RangeFrom(i + 2, n)
Range2(n) == RangeFrom(0, n)

\* The members of the list q.
Elems(q) == {q[i] : i \in 1..Len(q)}

\* The limits argument of an iterator: <<>> is None, <<S>> a collection holding
\* the indices S. Its truth value: None and an empty collection are false.
NoLimits == <<>>
Limits(S) == <<S>>
Truthy(limits) == limits # <<>> /\ limits[1] # {}

\* for ind in xrange(shape): if limits and ind not in limits: continue; yield ind
RECURSIVE IterateFrom(_, _, _)
IterateFrom(ind, extent, limits) ==
    IF ind >= extent THEN <<>>
    ELSE IF Truthy(limits) /\ ind \notin limits[1]
         THEN IterateFrom(ind + 1, extent, limits)
         ELSE <<ind>> \o IterateFrom(ind + 1, extent, limits)

\* The indices the three iterators yield, in the order yielded.
IterateSagittalSlices(shape, limits) == IterateFrom(0, shape[1], limits)
IterateAxialSlices(shape, limits) == IterateFrom(0, shape[2], limits)
IterateCoronalSlices(shape, limits) == IterateFrom(0, shape[3], limits)

IterateSlices(name, shape, limits) ==
    CASE name = "sagittal" -> IterateSagittalSlices(shape, limits)
      [] name = "axial" -> IterateAxialSlices(shape, limits)
      [] name = "coronal" -> IterateCoronalSlices(shape, limits)

\* orientation_name2axis of _render_one_bem_axe, counting the axes from 1.
OrientationAxis(orientation) ==
    CASE orientation = "sagittal" -> 1
      [] orientation = "axial" -> 2
      [] orientation = "coronal" -> 3

\* A slider that is emitted for an empty range as well, starting at 0.
BuildHtmlSlider_Always(slices_range) ==
    IF slices_range = <<>>
    THEN [exc |-> FALSE, minvalue |-> 0, maxvalue |-> 0, startvalue |-> 0]
    ELSE [exc |-> FALSE, minvalue |-> slices_range[1],
          maxvalue |-> slices_range[Len(slices_range)],
          startvalue |-> (slices_range[1] + slices_range[Len(slices_range)]) \div 2 + 1]

\* _build_html_slider: slices_range[0] of an empty list raises IndexError;
\* '/' divides integers, rounding down.
BuildHtmlSlider(slices_range) ==
    IF slices_range = <<>>
    THEN [exc |-> TRUE, minvalue |-> 0, maxvalue |-> 0, startvalue |-> 0]
    ELSE [exc |-> FALSE, minvalue |-> slices_range[1],
          maxvalue |-> slices_range[Len(slices_range)],
          startvalue |-> (slices_range[1] + slices_range[Len(slices_range)]) \div 2 + 1]

\* _build_html_image: the <li> of the slice ind; without show it carries
\* style="display: none".
BuildHtmlImage(ind, show) == [ind |-> ind, show |-> show]

\* data.shape of the slices an iterator yields: array[ind, :, :],
\* array[:, ind, :] and np.flipud(np.rot90(array[:, :, ind])).
SliceDims(name, shape) ==
    CASE name = "sagittal" -> <<shape[2], shape[3]>>
      [] name = "axial" -> <<shape[1], shape[3]>>
      [] name = "coronal" -> <<shape[2], shape[1]>>

\* _build_image: figsize = data.shape[::-1]; when figsize[0] is 1 it takes
\* data[:, :, 0], which raises IndexError on the two-dimensional slice.
BuildImage(dims) == [exc |-> dims[2] = 1]

\* The <div> of one slider group: its slices, the first one built with
\* show=True, and its slider. imgfail: drawing a slice raises. exc: the call
\* raised instead of returning the group (at its first slice, or at the slider).
Group(name, global_id, inds, overlay, imgfail) ==
    IF Len(inds) > 0 /\ imgfail
    THEN [exc |-> TRUE, name |-> name, gid |-> global_id, overlay |-> overlay,
          slices |-> <<>>,
          slider |-> [exc |-> FALSE, minvalue |-> 0, maxvalue |-> 0, startvalue |-> 0]]
    ELSE LET slider == BuildHtmlSlider(inds) IN
         [exc |-> slider.exc, name |-> name, gid |-> global_id, overlay |-> overlay,
          slices |-> [i \in 1..Len(inds) |-> BuildHtmlImage(inds[i], i = 1)],
          slider |-> slider]

\* _render_one_axe over the indices its iterator yields, each with a slice of
\* shape dims (global_id is never None or 0 here, so 'global_id or name' is
\* global_id).
RenderOneAxe(inds, dims, name, global_id) ==
    Group(name, global_id, inds, FALSE, BuildImage(dims).exc)

\* _render_one_bem_axe: every second slice of the orientation's axis, each
\* with the contours plotted over it.
RenderOneBemAxe(global_id, shape, orientation) ==
    Group(orientation, global_id, Range2(shape[OrientationAxis(orientation)]), TRUE, FALSE)

\* The volume has an axis without a slice.
EmptyAxis(shape) == \E k \in 1..3 : shape[k] = 0

\* Whether building the groups one after the other raised.
AnyRaised(groups) == \E i \in 1..Len(groups) : groups[i].exc

\* The limits _render_image gives to _render_array.
ImageLimits(shape) ==
    [sagittal |-> Limits(Elems(Range2(shape[1]))),
     axial |-> Limits(Elems(Range2(shape[2]))),
     coronal |-> Limits(Elems(Range2(shape[3])))]

\* _render_array: the axial, the sagittal and the coronal group.
RenderArray(shape, global_id, limits) ==
    <<RenderOneAxe(IterateAxialSlices(shape, limits.axial), SliceDims("axial", shape),
                   "axial", global_id),
      RenderOneAxe(IterateSagittalSlices(shape, limits.sagittal),
                   SliceDims("sagittal", shape), "sagittal", global_id),
      RenderOneAxe(IterateCoronalSlices(shape, limits.coronal), SliceDims("coronal", shape),
                   "coronal", global_id)>>

-----------------------------------------------------------------------------
\* The cascade with the branches of -ave.fif and -eve.fif taking each other's
\* builder.
Classify_Swapped(fname, isdir) ==
    IF EndsWithAny(fname, {".mgz"}) THEN "bem"
    ELSE IF EndsWithAny(fname, {"raw.fif", "sss.fif"}) THEN "raw"
    ELSE IF EndsWithAny(fname, {"-fwd.fif", "-fwd.fif.gz"}) THEN "forward"
    ELSE IF EndsWithAny(fname, {"-ave.fif"}) THEN "events"
    ELSE IF EndsWithAny(fname, {"-eve.fif"}) THEN "evoked"
    ELSE IF EndsWithAny(fname, {"-epo.fif"}) THEN "epochs"
    ELSE IF EndsWithAny(fname, {"-cov.fif"}) THEN "covariance"
    ELSE IF EndsWithAny(fname, {"-trans.fif"}) THEN "trans"
    ELSE IF isdir THEN "folder"
    ELSE "none"

\* parse_folder's suffix cascade (the if/elif chain inside the try): the branch
\* taken for fname. "none": no branch, the file is passed over.
Classify(fname, isdir) ==
    IF EndsWithAny(fname, {".mgz"}) THEN "bem"
    ELSE IF EndsWithAny(fname, {"raw.fif", "sss.fif"}) THEN "raw"
    ELSE IF EndsWithAny(fname, {"-fwd.fif", "-fwd.fif.gz"}) THEN "forward"
    ELSE IF EndsWithAny(fname, {"-ave.fif"}) THEN "evoked"
    ELSE IF EndsWithAny(fname, {"-eve.fif"}) THEN "events"
    ELSE IF EndsWithAny(fname, {"-epo.fif"}) THEN "epochs"
    ELSE IF EndsWithAny(fname, {"-cov.fif"}) THEN "covariance"
    ELSE IF EndsWithAny(fname, {"-trans.fif"}) THEN "trans"
    ELSE IF isdir THEN "folder"
    ELSE "none"

-----------------------------------------------------------------------------
\* Section builders. Each takes the object and returns it as the call leaves it.

\* _render_raw: the id is taken before the reader runs.
RenderRaw(o, fname, env) ==
    LET a == GetId(o) IN
    IF ~env.read_ok THEN Raise(a)
    ELSE AppendHtml(a, Body(<<Frag(a.initial_id, "raw", fname, "")>>))

\* _render_forward: the reader runs first; the builder appends to fnames itself.
RenderForward(o, fname, env) ==
    IF ~env.read_ok THEN Raise(o)
    ELSE LET a == GetId(o) IN
         AppendName(AppendHtml(a, Body(<<Frag(a.initial_id, "forward", fname, "")>>)),
                    fname)

\* The loop of _render_evoked over the conditions i..n: one id and one plot per
\* condition, the fragments collected in acc.
RECURSIVE EvokedLoop(_, _, _, _, _, _)
EvokedLoop(o, fname, i, n, env, acc) ==
    IF i > n THEN AppendHtml(o, Body(acc))
    ELSE LET a == GetId(o) IN
         IF env.plot_fail_at = i THEN Raise(a)
         ELSE EvokedLoop(a, fname, i + 1, n, env,
                         Append(acc, Frag(a.initial_id, "evoked", fname, Comment(i))))

\* _render_evoked
RenderEvoked(o, fname, env) ==
    IF ~env.read_ok THEN Raise(o)
    ELSE EvokedLoop(o, fname, 1, env.nconds, env, <<>>)

\* _render_eve, _render_epochs, _render_cov: the id, the reader, one plot, one
\* image fragment of class klass.
RenderImageOf(o, fname, env, klass) ==
    LET a == GetId(o) IN
    IF ~env.read_ok \/ env.plot_fail_at = 1 THEN Raise(a)
    ELSE AppendHtml(a, Body(<<Frag(a.initial_id, klass, fname, "")>>))

RenderEve(o, fname, env) == RenderImageOf(o, fname, env, "events")
RenderEpochs(o, fname, env) == RenderImageOf(o, fname, env, "epochs")
RenderCov(o, fname, env) == RenderImageOf(o, fname, env, "covariance")

\* _render_trans: plot_trans runs first; only a 3-D scene takes an id and gives
\* a fragment, anything else leaves the object as it was and returns.
RenderTrans(o, fname, env) ==
    IF env.plot_fail_at = 1 THEN Raise(o)
    ELSE IF ~env.scene THEN o
    ELSE LET a == GetId(o) IN
         IF ~env.read_ok THEN Raise(a)
         ELSE AppendHtml(a, Body(<<Frag(a.initial_id, "trans", fname, "")>>))

\* _render_image: the id is taken before the volume is loaded; every second
\* slice of each axis is rendered.
RenderImage(o, image, env) ==
    LET a == GetId(o)
        groups == RenderArray(env.shape, a.initial_id, ImageLimits(env.shape))
    IN
    IF ~env.read_ok \/ env.plot_fail_at = 1 \/ AnyRaised(groups) THEN Raise(a)
    ELSE AppendHtml(a, Body(<<SliceFrag(a.initial_id, Basename(image), groups)>>))

\* The first surface, in the order looked for, that glob does not find.
FirstMissing(surfs) ==
    SurfOrder[CHOOSE i \in 1..Len(SurfOrder) :
                /\ SurfOrder[i] \notin surfs
                /\ \A j \in 1..(i - 1) : SurfOrder[j] \in surfs]

\* _render_bem: a warning if mri/T1.mgz is no regular file, and on it goes;
\* without the bem directory or one of the three surfaces, the
\* plain image section of T1.mgz; otherwise the volume is loaded, then the id
\* taken, then the contours plotted.
RenderBem(o, env) ==
    LET m == IF env.isfile THEN o ELSE Warn(o, "MRI file does not exist") IN
    IF ~env.bem_dir
    THEN RenderImage(Warn(m, "Subject bem directory does not exist"), MriName, env)
    ELSE IF env.surfs # SurfNames
    THEN RenderImage(Warn(m, "No surface found for *" \o FirstMissing(env.surfs) \o "."),
                     MriName, env)
    ELSE IF ~env.read_ok THEN Raise(m)
    ELSE LET a == GetId(m)
             groups == <<RenderOneBemAxe(a.initial_id, env.shape, "axial"),
                         RenderOneBemAxe(a.initial_id, env.shape, "sagittal"),
                         RenderOneBemAxe(a.initial_id, env.shape, "coronal")>>
         IN
         IF env.plot_fail_at = 1 \/ AnyRaised(groups) THEN Raise(a)
         ELSE AppendHtml(a, Body(<<SliceFrag(a.initial_id, "BEM", groups)>>))

\* self.fnames.append(name) after a builder call, reached only if it returned.
ThenName(r, name) == IF r.exc THEN r ELSE AppendName(r, name)

\* The body of parse_folder's try statement for one fname.
ParseArtifact(o, fname, isdir, env) ==
    LET k == Classify(fname, isdir) IN
    CASE k = "bem" -> ThenName(RenderBem(o, env), "bem")
      [] k = "raw" -> ThenName(RenderRaw(o, fname, env), fname)
      [] k = "forward" -> RenderForward(o, fname, env)
      [] k = "evoked" -> ThenName(RenderEvoked(o, fname, env), fname)
      [] k = "events" -> ThenName(RenderEve(o, fname, env), fname)
      [] k = "epochs" -> ThenName(RenderEpochs(o, fname, env), fname)
      [] k = "covariance" -> ThenName(RenderCov(o, fname, env), fname)
      [] k = "trans" -> ThenName(RenderTrans(o, fname, env), fname)
      [] OTHER -> o

\* The loop body without the except clause.
TryArtifact_NoCatch(o, fname, isdir, env) == ParseArtifact(o, fname, isdir, env)

\* try: ... except Exception as e: logger.info(e)
TryArtifact(o, fname, isdir, env) ==
    [ParseArtifact(o, fname, isdir, env) EXCEPT !.exc = FALSE]

\* The names image_template evaluates whatever their values: the condition
\* {{if not interactive}} among them.
ImageTemplateNames == {"div_klass", "id", "show", "caption", "interactive"}

\* The keywords add_section gives to image_template.substitute.
SectionArgs == {"img", "id", "div_klass", "img_klass", "caption", "show"}

\* Template.substitute evaluates each name in the namespace given; a name that
\* is not there raises NameError.
Substitutes(names, given) == names \subseteq given

\* The loop of add_section over zip(figs, captions), figures i..n: an id, the
\* image of the figure, the template, and 'custom' appended to fnames, per
\* figure.
RECURSIVE SectionLoop(_, _, _, _, _)
SectionLoop(o, i, n, failAt, acc) ==
    IF i > n THEN AppendHtml(o, Body(acc))
    ELSE LET a == GetId(o) IN
         IF failAt = i THEN Raise(a)
         ELSE IF ~Substitutes(ImageTemplateNames, SectionArgs) THEN Raise(a)
         ELSE SectionLoop(AppendName(a, "custom"), i + 1, n, failAt,
                          Append(acc, Frag(a.initial_id, "custom", "", "")))

\* add_section(figs, captions) with n figures, of which the failAt-th cannot be
\* drawn (0: all can). The template is given no 'interactive', so the first
\* figure that reaches it ends the call with NameError.
AddSectionObj(o, n, failAt) == SectionLoop(o, 1, n, failAt, <<>>)

-----------------------------------------------------------------------------
\* The table of contents.

NoStyle == "<no style>"   \* the row's <span> has no style attribute
Unbound == "<unbound>"    \* class_name before its first assignment

\* One <li> of the table of contents; link is the id its <a href> names, 0 for
\* a row that has none.
Row(level, klass, link, name, color, label) ==
    [level |-> level, klass |-> klass, link |-> link, name |-> name, color |-> color,
     label |-> label]

\* _render_toc: 'red' for a name that ends in none of the listed suffixes.
TocColor(fname) ==
    IF ~EndsWithAny(fname, {"-eve.fif", "-ave.fif", "-cov.fif", "-sol.fif", "-fwd.fif",
                            "-inv.fif", "-src.fif", "-trans.fif", "raw.fif", "-epo.fif",
                            "T1.mgz"})
    THEN "red" ELSE ""

\* _render_toc: the class name of the row; without a match the variable keeps
\* the value of the previous iteration.
TocClass(fname, prev) ==
    IF EndsWithAny(fname, {"-eve.fif"}) THEN "events"
    ELSE IF EndsWithAny(fname, {"-ave.fif"}) THEN "evoked"
    ELSE IF EndsWithAny(fname, {"-cov.fif"}) THEN "covariance"
    ELSE IF EndsWithAny(fname, {"raw.fif", "sss.fif"}) THEN "raw"
    ELSE IF EndsWithAny(fname, {"-trans.fif"}) THEN "trans"
    ELSE IF EndsWithAny(fname, {"-fwd.fif"}) THEN "forward"
    ELSE IF EndsWithAny(fname, {"-epo.fif"}) THEN "epochs"
    ELSE IF EndsWithAny(fname, {".nii", ".nii.gz", ".mgh", ".mgz"}) THEN "slices-images"
    ELSE prev

\* _render_toc: the rows of the conditions i..n of one evoked file, ids from gid.
RECURSIVE NestedRows(_, _, _, _, _)
NestedRows(fname, color, i, n, gid) ==
    IF i > n THEN <<>>
    ELSE <<Row("nested", "evoked", gid, fname, color, Comment(i))>>
         \o NestedRows(fname, color, i + 1, n, gid + 1)

\* _render_toc: the rows for names[i..], global_id being gid and class_name klass.
RECURSIVE TocLoop(_, _, _, _, _)
TocLoop(names, db, i, gid, klass) ==
    IF i > Len(names) THEN <<>>
    ELSE
    LET fname == names[i]
        color == TocColor(fname)
        class_name == TocClass(fname, klass)
    IN
    IF EndsWithAny(fname, {".nii", ".nii.gz", ".mgh", ".mgz", "raw.fif", "sss.fif",
                           "-eve.fif", "-cov.fif", "-trans.fif", "-fwd.fif", "-epo.fif"})
    THEN <<Row("top", class_name, gid, fname, color, Basename(fname))>>
         \o TocLoop(names, db, i + 1, gid + 1, class_name)
    ELSE IF EndsWithAny(fname, {"-ave.fif"})
    THEN <<Row("top", "evoked", 0, fname, "#428bca", Basename(fname))>>
         \o NestedRows(fname, color, 1, db[fname], gid)
         \o TocLoop(names, db, i + 1, gid + db[fname], class_name)
    ELSE IF fname = "bem"
    THEN <<Row("top", "slices-images", gid, "", NoStyle, "MRI")>>
         \o TocLoop(names, db, i + 1, gid + 1, class_name)
    ELSE <<Row("top", "", gid, "", NoStyle, "custom")>>
         \o TocLoop(names, db, i + 1, gid + 1, class_name)

\* list.insert(i - 1, x)
ListInsert_OneEarly(l, i, x) ==
    IF i - 1 >= Len(l) THEN Append(l, x)
    ELSE SubSeq(l, 1, i - 1) \o <<x>> \o SubSeq(l, i, Len(l))

\* list.insert(i, x)
ListInsert(l, i, x) ==
    IF i >= Len(l) THEN Append(l, x)
    ELSE SubSeq(l, 1, i) \o <<x>> \o SubSeq(l, i + 1, Len(l))

\* _render_toc reads every -ave.fif file of the list again: db[f] is the number
\* of conditions read_evokeds finds in f by then, 0 if it raises.
TocReadRaises(names, db) ==
    \E i \in 1..Len(names) : EndsWith(names[i], "-ave.fif") /\ db[names[i]] = 0

\* _render_toc: global_id starts at 1; the TOC goes in just after the header,
\* once all its rows are written.
RenderToc(o, db) ==
    IF TocReadRaises(o.fnames, db) THEN Raise(o)
    ELSE [o EXCEPT !.html = ListInsert(@, 1, TocPiece(TocLoop(o.fnames, db, 1, 1, Unbound)))]

\* save, up to the open() of the output file: the TOC, the footer, and the
\* AttributeError of a report that has no data_path yet.
SaveObj(o, db, path) ==
    LET t == RenderToc(o, db)
        b == AppendHtml(t, Footer)
    IN
    IF t.exc THEN t
    ELSE IF path = NoPath THEN Raise(b) ELSE b

-----------------------------------------------------------------------------
\* Initial state: Report.__init__, which renders the header with the title given.

Init ==
    /\ title \in Titles
    /\ initial_id = 0
    /\ html = <<Header(title)>>
    /\ fnames = <<>>
    /\ data_path = NoPath
    /\ report_file = <<>>
    /\ pc = "idle"
    /\ walked = {}
    /\ evoked_db = [f \in AveNames |-> 0]
    /\ nops = 0
    /\ hist = {}
    /\ issued = <<>>
    /\ warned = <<>>
    /\ cname = ""
    /\ cdir = FALSE
    /\ ckinds = <<>>
    /\ vshape = FullShape
    /\ vlimits = <<>>
    /\ vyield = <<>>
    /\ vgroup = <<>>

\* The object's fields after an operation that left it as r.
Becomes(r) ==
    /\ initial_id' = r.initial_id
    /\ html' = r.html
    /\ fnames' = r.fnames
    /\ issued' = r.issued
    /\ warned' = r.warned

-----------------------------------------------------------------------------
\* What the collaborators can do in a builder call of each kind.

DefaultEnv == Env(TRUE, 0, TRUE, 1, TRUE, SurfNames)

EnvsFor(kind) ==
    CASE kind \in {"raw", "forward"} ->
           {Env(r, 0, TRUE, 1, TRUE, SurfNames) : r \in BOOLEAN}
      [] kind = "evoked" ->
           {Env(FALSE, 0, TRUE, 1, TRUE, SurfNames)}
           \cup UNION {{Env(TRUE, p, TRUE, n, TRUE, SurfNames) : p \in 0..n} :
                       n \in 1..MaxConds}
      [] kind \in {"events", "epochs", "covariance"} ->
           {Env(TRUE, 0, TRUE, 1, TRUE, SurfNames), Env(FALSE, 0, TRUE, 1, TRUE, SurfNames),
            Env(TRUE, 1, TRUE, 1, TRUE, SurfNames)}
      [] kind = "trans" ->
           {Env(TRUE, 0, TRUE, 1, TRUE, SurfNames), Env(TRUE, 0, FALSE, 1, TRUE, SurfNames),
            Env(TRUE, 1, TRUE, 1, TRUE, SurfNames), Env(FALSE, 0, TRUE, 1, TRUE, SurfNames)}
      [] kind = "bem" ->
           {Env(TRUE, 0, TRUE, 1, TRUE, sf) : sf \in SUBSET SurfNames}
           \cup {Env(r, p, TRUE, 1, b, sf) :
                   r \in BOOLEAN, p \in 0..1, b \in BOOLEAN, sf \in {{}, SurfNames}}
           \cup {WithShape(Env(TRUE, 0, TRUE, 1, b, SurfNames), FlatShape) : b \in BOOLEAN}
           \cup {NotAFile(Env(FALSE, 0, TRUE, 1, b, sf)) :
                   b \in BOOLEAN, sf \in {{}, SurfNames}}
           \cup {WithShape(Env(TRUE, 0, TRUE, 1, TRUE, {}), ThinShape)}
      [] OTHER -> {DefaultEnv}

\* The file's content does not change between two calls of parse_folder: a
\* file holds the conditions it held when it was read last.
SameFile(f, env) ==
    (f \in AveNames /\ env.read_ok /\ evoked_db[f] # 0) => env.nconds = evoked_db[f]

Remember(f, env) ==
    IF f \in AveNames /\ env.read_ok THEN [evoked_db EXCEPT ![f] = env.nconds]
    ELSE evoked_db

\* What the history records of the handling of one file.
Trouble(f, isdir, env) ==
    (IF ParseArtifact(Obj, f, isdir, env).exc THEN {"builder_raised"} ELSE {})
    \cup (IF Classify(f, isdir) = "trans" /\ env.plot_fail_at # 1 /\ ~env.scene
          THEN {"trans_skipped"} ELSE {})
    \cup (IF Classify(f, isdir) = "bem" /\ env.read_ok /\ env.plot_fail_at = 0
             /\ EmptyAxis(env.shape)
          THEN {"empty_slider"} ELSE {})

-----------------------------------------------------------------------------
\* Actions

\* add_section(figs, captions): an exception of the figure conversion or of
\* the template leaves through the caller, with the object as the loop left it.
AddSection(n, failAt) ==
    /\ pc = "idle"
    /\ nops < MaxOps
    /\ LET r == AddSectionObj(Obj, n, failAt) IN
       /\ Becomes(r)
       /\ hist' = hist \cup (IF ~r.exc THEN {}
                             ELSE IF failAt = 1 THEN {"section_raised"}
                             ELSE {"template_raised"})
    /\ nops' = nops + 1
    /\ UNCHANGED <<title, data_path, report_file, pc, walked, evoked_db>>
    /\ UNCHANGED cvars

\* parse_folder up to its loop: data_path, the default title, the search of
\* the folder, read_info (outside the try: its failure ends the call).
ParseFolderStart(info_ok) ==
    /\ pc = "idle"
    /\ data_path' = DataPath
    /\ title' = IF title = NoTitle THEN "MNE Report for ..." \o Tail_n(DataPath, 20)
                ELSE title
    /\ pc' = IF info_ok THEN "walk" ELSE "idle"
    /\ UNCHANGED <<walked, initial_id, html, fnames, report_file, evoked_db, nops, hist,
                   issued, warned>>
    /\ UNCHANGED cvars

\* One entry f of the folder: _recursive_search keeps it only if it matches
\* '*.fif', and then the loop body handles it. os.walk lists files, so isdir
\* is false. An exception that leaves the try statement ends the call.
ParseFile(f, env) ==
    /\ pc = "walk"
    /\ nops < MaxOps
    /\ f \notin walked
    /\ nops' = nops + 1
    /\ IF FnmatchFif(f)
       THEN /\ env \in EnvsFor(Classify(f, FALSE))
            /\ SameFile(f, env)
            /\ LET r == TryArtifact(Obj, f, FALSE, env) IN
               /\ Becomes(r)
               /\ pc' = IF r.exc THEN "idle" ELSE "walk"
               /\ walked' = IF r.exc THEN {} ELSE walked \cup {f}
            /\ evoked_db' = Remember(f, env)
            /\ hist' = hist \cup Trouble(f, FALSE, env)
       ELSE /\ env = DefaultEnv
            /\ walked' = walked \cup {f}
            /\ UNCHANGED <<initial_id, html, fnames, issued, warned, evoked_db, hist, pc>>
    /\ UNCHANGED <<title, data_path, report_file>>
    /\ UNCHANGED cvars

\* The last entry of fnames when subjects_dir and subject are set and glob finds
\* the subject's mri/T1.mgz; the loop ends after it.
ParseMri(env) ==
    /\ pc = "walk"
    /\ nops < MaxOps
    /\ env \in EnvsFor(Classify(MriName, FALSE))
    /\ Becomes(TryArtifact(Obj, MriName, FALSE, env))
    /\ hist' = hist \cup Trouble(MriName, FALSE, env)
    /\ nops' = nops + 1
    /\ pc' = "idle"
    /\ walked' = {}
    /\ UNCHANGED <<title, data_path, report_file, evoked_db>>
    /\ UNCHANGED cvars

\* The loop of parse_folder is through its list: the call returns.
ParseFolderEnd ==
    /\ pc = "walk"
    /\ pc' = "idle"
    /\ walked' = {}
    /\ UNCHANGED <<initial_id, html, fnames, title, data_path, report_file,
                   evoked_db, nops, hist, issued, warned>>
    /\ UNCHANGED cvars

\* save(): the file is written unless the call raised before. toc[f] is what
\* read_evokeds finds in f now (0: it raises), which matters for the files of
\* the list only; it is what the file holds from now on.
Save(toc) ==
    /\ pc = "idle"
    /\ nops < MaxOps
    /\ \A f \in AveNames : f \notin Elems(fnames) => toc[f] = evoked_db[f]
    /\ LET r == SaveObj(Obj, toc, data_path) IN
       /\ Becomes(r)
       /\ report_file' = IF r.exc THEN report_file ELSE r.html
    /\ hist' = hist \cup (IF toc # evoked_db THEN {"file_changed"} ELSE {})
    /\ evoked_db' = toc
    /\ nops' = nops + 1
    /\ UNCHANGED <<title, data_path, pc, walked>>
    /\ UNCHANGED cvars

Next ==
    \/ \E n \in 0..MaxFigs : \E failAt \in 0..n : AddSection(n, failAt)
    \/ \E info_ok \in BOOLEAN : ParseFolderStart(info_ok)
    \/ \E f \in DirEntries : \E env \in EnvsFor(Classify(f, FALSE)) : ParseFile(f, env)
    \/ \E env \in EnvsFor("bem") : ParseMri(env)
    \/ ParseFolderEnd
    \/ \E toc \in [AveNames -> 0..MaxConds] : Save(toc)

\* A run of the report: the classification variables stay as they are.
Spec == Init /\ [][Next]_vars

-----------------------------------------------------------------------------
\* Classification runs: the cascade applied to one file name, again and again.

MaxRuns == 2     \* how often one name is classified

Stems == {"s", "s_", "dir.fif/s", "x-ave.fif-", "T1"}
Suffixes ==
    {".mgz", "raw.fif", "sss.fif", "-fwd.fif", "-fwd.fif.gz", "-ave.fif", "-eve.fif",
     "-epo.fif", "-cov.fif", "-trans.fif", "-inv.fif", ".fif", ".bin", "", "-ave.fif.gz",
     "-AVE.fif"}
ClassifyNames == {stem \o suf : stem \in Stems, suf \in Suffixes}

\* A fresh report, and the name to classify.
InitClassify ==
    /\ title \in Titles
    /\ initial_id = 0
    /\ html = <<Header(title)>>
    /\ fnames = <<>>
    /\ data_path = NoPath
    /\ report_file = <<>>
    /\ pc = "idle"
    /\ walked = {}
    /\ evoked_db = [f \in AveNames |-> 0]
    /\ nops = 0
    /\ hist = {}
    /\ issued = <<>>
    /\ warned = <<>>
    /\ cname \in ClassifyNames
    /\ cdir \in BOOLEAN
    /\ ckinds = <<>>
    /\ vshape = FullShape
    /\ vlimits = <<>>
    /\ vyield = <<>>
    /\ vgroup = <<>>

\* The try statement of parse_folder, run on cname: the branch of the cascade
\* and the builder it calls, whose exception is caught.
ClassifyName(env) ==
    /\ Len(ckinds) < MaxRuns
    /\ ckinds' = Append(ckinds, Classify(cname, cdir))
    /\ SameFile(cname, env)
    /\ Becomes(TryArtifact(Obj, cname, cdir, env))
    /\ evoked_db' = Remember(cname, env)
    /\ hist' = hist \cup Trouble(cname, cdir, env)
    /\ UNCHANGED <<title, data_path, report_file, pc, walked, nops>>
    /\ UNCHANGED <<cname, cdir, vshape, vlimits, vyield, vgroup>>

NextClassify ==
    \/ \E env \in EnvsFor(Classify(cname, cdir)) : ClassifyName(env)

SpecClassify == InitClassify /\ [][NextClassify]_vars

-----------------------------------------------------------------------------
\* Slice runs: the iterators and the slider group builders applied to a
\* volume of some shape, with some limits.

AxisNames == {"sagittal", "axial", "coronal"}
Shapes == [1..3 -> 0..MaxExtent]
LimitArgs == {NoLimits} \cup {Limits(S) : S \in SUBSET (0..MaxExtent)}

\* A fresh report, the volume and the limits.
InitSlices ==
    /\ title \in Titles
    /\ initial_id = 0
    /\ html = <<Header(title)>>
    /\ fnames = <<>>
    /\ data_path = NoPath
    /\ report_file = <<>>
    /\ pc = "idle"
    /\ walked = {}
    /\ evoked_db = [f \in AveNames |-> 0]
    /\ nops = 0
    /\ hist = {}
    /\ issued = <<>>
    /\ warned = <<>>
    /\ cname = ""
    /\ cdir = FALSE
    /\ ckinds = <<>>
    /\ vshape \in Shapes
    /\ vlimits \in LimitArgs
    /\ vyield = <<>>
    /\ vgroup = <<>>

\* list(_iterate_<name>_slices(array, limits))
IterateStep(name) ==
    /\ vyield' = <<[name |-> name, inds |-> IterateSlices(name, vshape, vlimits)]>>
    /\ UNCHANGED <<cname, cdir, ckinds, vshape, vlimits, vgroup>>
    /\ UNCHANGED mainvars

\* A slice that reaches the figure has at least one row and one column: no
\* slice is built, or _build_image raises before it makes a figure, or the
\* slice is not empty.
Drawable(inds, dims) ==
    Len(inds) = 0 \/ BuildImage(dims).exc \/ (dims[1] >= 1 /\ dims[2] >= 1)

\* The contours are plotted over slices of a volume that is not empty: the
\* orientation has no slice, or no axis has extent 0.
Plottable(shape, orientation) ==
    Len(Range2(shape[OrientationAxis(orientation)])) = 0 \/ \A k \in 1..3 : shape[k] >= 1

\* _render_one_axe(_iterate_<name>_slices(array, limits), name, 1)
OneAxeStep(name) ==
    /\ Drawable(IterateSlices(name, vshape, vlimits), SliceDims(name, vshape))
    /\ vgroup' = <<RenderOneAxe(IterateSlices(name, vshape, vlimits),
                                SliceDims(name, vshape), name, 1)>>
    /\ UNCHANGED <<cname, cdir, ckinds, vshape, vlimits, vyield>>
    /\ UNCHANGED mainvars

\* _render_one_bem_axe(mri_fname, surf_fnames, 1, shape, orientation)
OneBemAxeStep(orientation) ==
    /\ Plottable(vshape, orientation)
    /\ vgroup' = <<RenderOneBemAxe(1, vshape, orientation)>>
    /\ UNCHANGED <<cname, cdir, ckinds, vshape, vlimits, vyield>>
    /\ UNCHANGED mainvars

NextSlices ==
    \/ \E name \in AxisNames : IterateStep(name)
    \/ \E name \in AxisNames : OneAxeStep(name)
    \/ \E orientation \in AxisNames : OneBemAxeStep(orientation)

SpecSlices == InitSlices /\ [][NextSlices]_vars

-----------------------------------------------------------------------------
\* What can be read off the document.

\* The fragments of the body pieces of h, in list order.
RECURSIVE FragsOf(_)
FragsOf(h) ==
    IF h = <<>> THEN <<>>
    ELSE (IF Head(h).kind = "body" THEN Head(h).frags ELSE <<>>) \o FragsOf(Tail(h))

BodyFrags == FragsOf(html)

\* How many pieces of h are of kind k.
CountKind(h, k) == Cardinality({i \in 1..Len(h) : h[i].kind = k})

\* save was called once and nothing was appended since.
SavedOnce ==
    /\ CountKind(html, "toc") = 1
    /\ html[Len(html)].kind = "footer"

\* The rows of the table of contents (of the piece save put second).
TocRows == IF Len(html) >= 2 /\ html[2].kind = "toc" THEN html[2].rows ELSE <<>>

HasLink(row) == row.link # 0

\* The rows that carry a link, in order.
LinkRows == SelectSeq(TocRows, HasLink)

\* Row r names the artifact (or condition, or custom figure) fragment g shows.
RowNamesFrag(r, g) ==
    IF r.level = "nested" THEN g.klass = "evoked" /\ g.name = r.name /\ g.cond = r.label
    ELSE IF r.name # "" THEN g.name = r.name /\ g.klass = r.klass
    ELSE IF r.label = "MRI" THEN g.klass = "slices-images"
    ELSE g.klass = "custom"

\* The k-th link of the TOC is the id of the k-th fragment, which shows what the
\* row names.
LinksMatchBody ==
    /\ Len(LinkRows) = Len(BodyFrags)
    /\ \A k \in 1..Len(LinkRows) :
          /\ LinkRows[k].link = BodyFrags[k].id
          /\ RowNamesFrag(LinkRows[k], BodyFrags[k])

-----------------------------------------------------------------------------
\* C1 (as claimed): in a run where every reader and plot call succeeded and
\* every trans plot was a 3-D scene, after parse_folder, any add_section calls
\* (whose figures were all converted) and one save, the k-th link of the table
\* of contents is the id of the k-th body fragment, and that fragment shows the
\* artifact (or condition) the row names.
C1_TocLinksMatchBody == (SavedOnce /\ hist \subseteq {"template_raised"}) => LinksMatchBody

\* C2 (as claimed): when a section builder raised inside parse_folder, the
\* artifacts rendered after it still have TOC links equal to the ids of their
\* own fragments.
C2_LinksSurviveFailure == (SavedOnce /\ hist = {"builder_raised"}) => LinksMatchBody

\* C3: a file whose section builder raises adds nothing to html and nothing to
\* fnames, and the loop of parse_folder goes on with the rest of the list (or,
\* after T1.mgz, the last of the list, returns).
C3_FailureIsSkipped ==
    [][ /\ \A f \in DirEntries : \A env \in EnvsFor(Classify(f, FALSE)) :
             (/\ pc = "walk" /\ f \notin walked /\ FnmatchFif(f)
              /\ ParseArtifact(Obj, f, FALSE, env).exc
              /\ ParseFile(f, env))
             => (html' = html /\ fnames' = fnames /\ pc' = "walk" /\ f \in walked')
        /\ \A env \in EnvsFor("bem") :
             (/\ pc = "walk"
              /\ ParseArtifact(Obj, MriName, FALSE, env).exc
              /\ ParseMri(env))
             => (html' = html /\ fnames' = fnames /\ pc' = "idle")
      ]_vars

\* A report saved to its file after a builder had raised and another artifact
\* had been rendered.
C3_Witness ==
    /\ SavedOnce
    /\ "builder_raised" \in hist
    /\ report_file = html
    /\ Len(BodyFrags) >= 1

\* C4: the N calls of _get_id made so far returned 1, 2, ..., N in this order,
\* and no two body fragments carry the same id.
C4_IdsAreOneToN ==
    /\ \A i \in 1..Len(issued) : issued[i] = i
    /\ initial_id = Len(issued)
    /\ \A i, j \in 1..Len(BodyFrags) : i # j => BodyFrags[i].id # BodyFrags[j].id

\* Three ids given out, across a builder that raised, add_section and a
\* fragment rendered after them.
C4_Witness ==
    /\ Len(issued) >= 3
    /\ "builder_raised" \in hist
    /\ "template_raised" \in hist
    /\ Len(BodyFrags) >= 1

\* C5: after one save the html list is the header, the TOC, the body pieces in
\* the order they were rendered (fragment ids strictly increasing along the
\* list), and the footer.
C5_DocumentLayout ==
    SavedOnce =>
        /\ Len(html) >= 3
        /\ html[1].kind = "header"
        /\ html[2].kind = "toc"
        /\ html[Len(html)].kind = "footer"
        /\ \A i \in 3..(Len(html) - 1) : html[i].kind = "body"
        /\ \A i, j \in 1..Len(BodyFrags) : i < j => BodyFrags[i].id < BodyFrags[j].id

\* A saved report with two body pieces between the TOC and the footer.
C5_Witness ==
    /\ SavedOnce
    /\ Len(html) >= 5
    /\ Len(BodyFrags) >= 2

\* C6 (as claimed): over any sequence of calls the TOC is inserted once and the
\* footer appended once, and nothing changes the html list after the first
\* save.
C6_TocAndFooterOnce ==
    [][ /\ CountKind(html', "toc") <= 1
        /\ CountKind(html', "footer") <= 1
        /\ (CountKind(html, "toc") >= 1 => html' = html)
      ]_vars

\* The rules of the classifier as the specification lists them, in order:
\* the suffixes and the kind.
Rules ==
    << <<{".mgz"}, "bem">>,
       <<{"raw.fif", "sss.fif"}, "raw">>,
       <<{"-fwd.fif", "-fwd.fif.gz"}, "forward">>,
       <<{"-ave.fif"}, "evoked">>,
       <<{"-eve.fif"}, "events">>,
       <<{"-epo.fif"}, "epochs">>,
       <<{"-cov.fif"}, "covariance">>,
       <<{"-trans.fif"}, "trans">> >>

Matching(name) == {i \in 1..Len(Rules) : EndsWithAny(name, Rules[i][1])}

FirstRuleKind(name, isdir) ==
    IF Matching(name) # {}
    THEN Rules[CHOOSE i \in Matching(name) : \A j \in Matching(name) : i <= j][2]
    ELSE IF isdir THEN "folder"
    ELSE "none"

\* C7: every classification of a name takes the branch of the first rule, in
\* the listed order, that the name matches (directory and then none when no
\* suffix matches), so that classifying the name again gives the same kind.
C7_ClassifyFirstMatch ==
    \A i \in 1..Len(ckinds) : ckinds[i] = FirstRuleKind(cname, cdir)

\* A name that holds one suffix inside and ends in another, classified twice.
C7_Witness ==
    /\ cname = "x-ave.fif-raw.fif"
    /\ Len(ckinds) >= 2
    /\ ckinds[1] = "raw"
    /\ ckinds[2] = "raw"

\* The search for '*.fif' finds the file f of the folder, and f matches no
\* rule of the cascade.
Unmatched(f) == FnmatchFif(f) /\ Classify(f, FALSE) = "none"

\* The step handles entry f of the folder.
Handles(f) == pc = "walk" /\ f \notin walked /\ f \in walked'

\* C8 (as claimed, for the files the search finds): a file that matches no
\* rule yields one custom-class fragment and one TOC row, flagged red.
C8_UnmatchedIsCustom ==
    [][ \A f \in DirEntries : (Handles(f) /\ Unmatched(f)) =>
          LET before == TocLoop(fnames, evoked_db, 1, 1, Unbound)
              after == TocLoop(fnames', evoked_db', 1, 1, Unbound)
              frags == FragsOf(html')
          IN /\ Len(frags) = Len(BodyFrags) + 1
             /\ frags[Len(frags)].klass = "custom"
             /\ Len(after) = Len(before) + 1
             /\ after[Len(after)].color = "red"
      ]_vars

\* The suffixes the classifier accepts, as the claim lists them.
ClaimedSuffixes ==
    {"raw.fif", "sss.fif", "-fwd.fif", "-ave.fif", "-eve.fif", "-epo.fif", "-cov.fif",
     "-trans.fif"}

\* C9 (as claimed): the TOC row of a file is red exactly when the file name
\* ends in none of the suffixes the classifier accepts.
C9_RedIffUnconventional ==
    \A i \in 1..Len(TocRows) :
        TocRows[i].name # "" =>
            (TocRows[i].color = "red" <=> ~EndsWithAny(TocRows[i].name, ClaimedSuffixes))

\* How often x occurs in the sequence q.
Count(q, x) == Cardinality({i \in 1..Len(q) : q[i] = x})

\* The rows of the conditions of file f, and its fragments, in order.
NestedOf(f) ==
    LET Test(r) == r.level = "nested" /\ r.name = f IN SelectSeq(TocRows, Test)
EvokedFragsOf(f) ==
    LET Test(g) == g.klass = "evoked" /\ g.name = f IN SelectSeq(BodyFrags, Test)

\* The document holds one top-level row for f, k nested rows and k fragments
\* of increasing ids, the i-th row linking to the i-th condition's fragment.
EvokedLayout(f, k) ==
    /\ Cardinality({i \in 1..Len(TocRows) :
                      TocRows[i].level = "top" /\ TocRows[i].name = f}) = 1
    /\ Len(NestedOf(f)) = k
    /\ Len(EvokedFragsOf(f)) = k
    /\ \A i, j \in 1..Len(EvokedFragsOf(f)) :
          i < j => EvokedFragsOf(f)[i].id < EvokedFragsOf(f)[j].id
    /\ \A i \in 1..k :
          /\ i <= Len(NestedOf(f)) /\ i <= Len(EvokedFragsOf(f))
          /\ NestedOf(f)[i].link = EvokedFragsOf(f)[i].id
          /\ NestedOf(f)[i].label = EvokedFragsOf(f)[i].cond

\* C10 (as claimed): an -ave.fif file rendered with k conditions has, in the
\* saved document, one top-level row, k nested rows and k fragments of
\* increasing ids, the i-th nested row linking to the i-th condition's
\* fragment. (Stated for the runs in which nothing went wrong but builders
\* raising inside parse_folder.)
C10_EvokedRowsLinkFragments ==
    (SavedOnce /\ hist \subseteq {"builder_raised"}) =>
        \A f \in AveNames : Count(fnames, f) = 1 => EvokedLayout(f, evoked_db[f])

-----------------------------------------------------------------------------
\* Slider groups and iterators (slice runs).

SetMin(S) == CHOOSE x \in S : \A y \in S : x <= y
SetMax(S) == CHOOSE x \in S : \A y \in S : y <= x

\* The indices of the slices of the group g.
IndsOf(g) == {g.slices[k].ind : k \in 1..Len(g.slices)}

\* The slices of g that are built visible.
ShownOf(g) == {k \in 1..Len(g.slices) : g.slices[k].show}

\* C11 (as claimed): for a non-empty ascending index sequence the slider's start
\* value is floor((min + max) / 2) + 1 and lies between the smallest and the
\* largest index.
C11_StartIsMidpointInRange ==
    \A i \in 1..Len(vgroup) :
        Len(vgroup[i].slices) > 0 =>
            /\ ~vgroup[i].exc
            /\ vgroup[i].slider.startvalue =
                 (SetMin(IndsOf(vgroup[i])) + SetMax(IndsOf(vgroup[i]))) \div 2 + 1
            /\ vgroup[i].slider.startvalue >= SetMin(IndsOf(vgroup[i]))
            /\ vgroup[i].slider.startvalue <= SetMax(IndsOf(vgroup[i]))

\* The indices the group built last was built over.
GroupInput(g) ==
    IF g.overlay THEN Range2(vshape[OrientationAxis(g.name)])
    ELSE IterateSlices(g.name, vshape, vlimits)

\* C14 (as claimed): a slider group built over a non-empty index sequence of
\* slices that can be drawn holds
\* a slice for every index, exactly one slice is marked visible, and it is the
\* slice of the slider's start index, which is one of the group's indices.
C14_VisibleSliceIsStartIndex ==
    \A i \in 1..Len(vgroup) :
        (Len(GroupInput(vgroup[i])) > 0 /\ ~vgroup[i].exc) =>
            /\ Len(vgroup[i].slices) = Len(GroupInput(vgroup[i]))
            /\ IndsOf(vgroup[i]) = Elems(GroupInput(vgroup[i]))
            /\ Cardinality(ShownOf(vgroup[i])) = 1
            /\ vgroup[i].slider.startvalue \in IndsOf(vgroup[i])
            /\ \A k \in ShownOf(vgroup[i]) :
                  vgroup[i].slices[k].ind = vgroup[i].slider.startvalue

\* The axis the claim gives each iterator, counting from 1.
ClaimedAxis(name) ==
    CASE name = "sagittal" -> 1 [] name = "axial" -> 2 [] name = "coronal" -> 3

\* The indices the claim has an iterator yield.
ClaimedIndices(name) ==
    IF vlimits = NoLimits THEN 0..(vshape[ClaimedAxis(name)] - 1)
    ELSE vlimits[1] \cap (0..(vshape[ClaimedAxis(name)] - 1))

\* C15 (as claimed): an iterator yields exactly the in-range indices of the
\* limit set given (the empty set and out-of-range indices included), every
\* index when none is given, each once and in ascending order.
C15_YieldsLimitedIndicesAscending ==
    \A i \in 1..Len(vyield) :
        /\ Elems(vyield[i].inds) = ClaimedIndices(vyield[i].name)
        /\ \A j, k \in 1..Len(vyield[i].inds) :
              j < k => vyield[i].inds[j] < vyield[i].inds[k]

-----------------------------------------------------------------------------
\* Title, trans files, the MRI section.

\* C12 (as claimed): a report constructed without a title, after parse_folder
\* and save, shows in its header the default title made of the last 20
\* characters of data_path.
C12_HeaderShowsDefaultTitle ==
    (SavedOnce /\ data_path # NoPath) =>
        /\ html[1].kind = "header"
        /\ html[1].title = "MNE Report for ..." \o Tail_n(data_path, 20)

\* C13 (as claimed): after parse_folder and save, as many rows of the table of
\* contents carry a link as there are body fragments; a trans file skipped
\* because its plot is not a 3-D scene has neither a fragment nor a row.
C13_LinkRowsCountFragments ==
    (SavedOnce /\ hist \subseteq {"builder_raised", "trans_skipped"}) =>
        /\ Len(LinkRows) = Len(BodyFrags)
        /\ \A k \in 1..Len(LinkRows) :
              LinkRows[k].klass = "trans" =>
                  \E g \in 1..Len(BodyFrags) :
                      BodyFrags[g].klass = "trans" /\ BodyFrags[g].name = LinkRows[k].name

\* The MRI section is the one with the contours over every slice.
Contours(frag) == \A k \in 1..Len(frag.groups) : frag.groups[k].overlay
\* The MRI section is the plain image section: no slice has contours.
Plain(frag) == \A k \in 1..Len(frag.groups) : ~frag.groups[k].overlay

\* C16 (as claimed): with the volume readable, every axis of it holding a
\* slice, and the plots succeeding, _render_bem gives the contour section
\* exactly when the bem directory and all three surfaces are found;
\* otherwise it warns and gives the plain image section of T1.mgz with three
\* slider groups and no contours, without raising; either way one id is taken,
\* one fragment carries it and 'bem' is appended to fnames once.
C16_BemAllOrNothing ==
    [][ \A env \in EnvsFor("bem") :
          (/\ env.read_ok /\ env.plot_fail_at = 0 /\ ~EmptyAxis(env.shape)
           /\ ParseMri(env))
          => /\ issued' = Append(issued, initial_id + 1)
             /\ fnames' = Append(fnames, "bem")
             /\ Len(html') = Len(html) + 1
             /\ SubSeq(html', 1, Len(html)) = html
             /\ html'[Len(html')].kind = "body"
             /\ Len(html'[Len(html')].frags) = 1
             /\ html'[Len(html')].frags[1].id = initial_id + 1
             /\ html'[Len(html')].frags[1].klass = "slices-images"
             /\ Len(html'[Len(html')].frags[1].groups) = 3
             /\ IF env.bem_dir /\ env.surfs = SurfNames
                THEN /\ Contours(html'[Len(html')].frags[1])
                     /\ html'[Len(html')].frags[1].name = "BEM"
                     /\ warned' = warned
                ELSE /\ Plain(html'[Len(html')].frags[1])
                     /\ html'[Len(html')].frags[1].name = "T1.mgz"
                     /\ Len(warned') = Len(warned) + 1
      ]_vars

\* C17: a slider over no index raises instead of giving a control; the MRI
\* section of a volume with an axis of no slice therefore adds nothing to
\* html and nothing to fnames, parse_folder returns, and save works.
C17_EmptySliderFailsSectionOnly ==
    [][ \A env \in EnvsFor("bem") :
          (/\ env.read_ok /\ env.plot_fail_at = 0 /\ EmptyAxis(env.shape)
           /\ ParseMri(env))
          => /\ BuildHtmlSlider(Range2(0)).exc
             /\ html' = html
             /\ fnames' = fnames
             /\ pc' = "idle"
             /\ \E toc \in [AveNames -> 1..MaxConds] :
                  ~SaveObj([initial_id |-> initial_id', html |-> html', fnames |-> fnames',
                            issued |-> issued', warned |-> warned', exc |-> FALSE],
                           toc, data_path').exc
      ]_vars

\* A report saved to its file after the MRI section failed on its slider, with
\* the one fragment rendered besides it and its row.
C17_Witness ==
    /\ "empty_slider" \in hist
    /\ SavedOnce
    /\ report_file = html
    /\ Len(BodyFrags) = 1
    /\ Len(LinkRows) = 1
    /\ \A i \in 1..Len(BodyFrags) : BodyFrags[i].klass # "slices-images"
====
